---- MODULE Spec2Model ----
(***************************************************************************)
(* redux-orm: the QuerySet (a chainable list of entity ids over an         *)
(* EntityManager) and the Entity wrapper, both of which record mutations   *)
(* on the manager's mutation list instead of changing the entity map.      *)
(*                                                                         *)
(* JavaScript values are modelled as follows.                              *)
(*   - a plain object is a function from property names (strings) to       *)
(*     values; a missing property reads as Undefined;                      *)
(*   - an argument that may be an object, a function or something else     *)
(*     (lookupObj, updater, mergeObj) is a tagged value                    *)
(*     [kind, props, name]: kind is the typeof/shape, props the own        *)
(*     enumerable properties, name identifies a function;                  *)
(*   - property values are the integers of Vals, ids the integers of Ids.  *)
(* The record fields of an Entity are kept apart from its two own          *)
(* properties `manager` and `fieldNames`: no record field has those names. *)
(***************************************************************************)
EXTENDS Integers, Sequences, FiniteSets

VARIABLES
    entityMap,   \* manager.getEntityMap(): id -> plain record
    mutations,   \* manager.mutations
    idArr,       \* the QuerySet in hand: its idArr
    ret,         \* what the last read-only QuerySet call returned
    wrapper,     \* the Entity wrapper in hand
    built,       \* what the wrapper in hand was constructed with
    thrown,      \* the error the last call raised, "none" if it returned
    calls        \* history of the update/set/delete calls made so far

vars == <<entityMap, mutations, idArr, ret, wrapper, built, thrown, calls>>

----------------------------------------------------------------------------
(* Bounds and input sets *)

MaxId == 2
MaxLen == 2
MaxLog == 2

Ids == 1..MaxId
Vals == {1, 2}

Undefined == 0
UPDATE == "UPDATE"
DELETE == "DELETE"
IdAttribute == "id"

NoProps == [k \in {} |-> Undefined]

RECURSIVE SeqsUpTo(_, _)
SeqsUpTo(S, n) ==
    IF n = 0 THEN {<<>>}
    ELSE LET shorter == SeqsUpTo(S, n - 1)
         IN  shorter \cup {Append(s, x) : s \in {t \in shorter : Len(t) = n - 1}, x \in S}

IdArrs == SeqsUpTo(Ids, MaxLen)

\* Records the manager may hold: a name, and possibly a value of their own
\* under the id attribute.
StoredRecords ==
    {[name |-> v] : v \in Vals} \cup {[id |-> x, name |-> v] : x \in Ids, v \in Vals}

EntityMaps == UNION {[S -> StoredRecords] : S \in SUBSET Ids}

\* JavaScript argument values
Obj(props) == [kind |-> "object", props |-> props, name |-> ""]
Fn(name) == [kind |-> "function", props |-> NoProps, name |-> name]
Num == [kind |-> "number", props |-> NoProps, name |-> ""]
NoUpdater == [kind |-> "undefined", props |-> NoProps, name |-> ""]

Predicates == {"nameIs1", "hasName"}

Criteria ==
    {Obj(NoProps), Obj([name |-> 1]), Obj([id |-> 1]), Obj([name |-> 2, id |-> 2])}
        \cup {Fn(p) : p \in Predicates}

FieldLists == {<<>>, <<"name">>, <<"id">>, <<"name", "id">>}

MergeObjs == {Obj([id |-> 2]), Obj([age |-> 1, name |-> 2])}

Transforms == {Fn("rename")}

InvalidUpdaters == {Num}

Updaters == MergeObjs \cup Transforms \cup InvalidUpdaters

IsValidUpdater(u) == u.kind \in {"object", "function"}

----------------------------------------------------------------------------
(* JavaScript and lodash primitives *)

\* obj[key]
Prop(obj, key) == IF key \in DOMAIN obj THEN obj[key] ELSE Undefined

\* Object.assign(target, source) for a plain-object source
Assign(target, source) ==
    [k \in DOMAIN target \cup DOMAIN source |->
        IF k \in DOMAIN source THEN source[k] ELSE target[k]]

\* Object.assign(target, value): the own enumerable properties of value
ObjectAssign(target, value) == Assign(target, value.props)

\* Object.keys(value)
ObjectKeys(value) == DOMAIN value.props

\* utils.match(lookupObj, entity): every listed property is strictly equal
match(lookupObj, entity) ==
    \A key \in ObjectKeys(lookupObj) : lookupObj.props[key] = Prop(entity, key)

\* Calling a caller-supplied predicate on a full entity
CallPredicate(name, e) ==
    CASE name = "nameIs1" -> Prop(e, "name") = 1
      [] name = "hasName" -> "name" \in DOMAIN e
      [] OTHER -> FALSE

\* array.filter(pred) / lodash reject(array, pred): the elements of s, from
\* position i on, whose verdict keep[i] is TRUE, in order
RECURSIVE SelectPositions(_, _, _)
SelectPositions(s, keep, i) ==
    IF i > Len(s) THEN <<>>
    ELSE IF keep[i] THEN <<s[i]>> \o SelectPositions(s, keep, i + 1)
         ELSE SelectPositions(s, keep, i + 1)

\* lodash baseCompareAscending on numbers and undefined: undefined sorts last
baseCompareAscending(value, other) ==
    IF value = other THEN 0
    ELSE IF value = Undefined THEN 1
    ELSE IF other = Undefined THEN -1
    ELSE IF value > other THEN 1 ELSE -1

\* lodash compareMultiple: first differing criterion, then the original index
RECURSIVE compareCriteria(_, _, _, _)
compareCriteria(a, b, fieldNames, k) ==
    IF k > Len(fieldNames) THEN 0
    ELSE LET r == baseCompareAscending(Prop(a, fieldNames[k]), Prop(b, fieldNames[k]))
         IN  IF r # 0 THEN r ELSE compareCriteria(a, b, fieldNames, k + 1)

compareMultiple(ents, i, j, fieldNames) ==
    LET r == compareCriteria(ents[i], ents[j], fieldNames, 1)
    IN  IF r # 0 THEN r ELSE i - j

\* lodash sortByAll(collection, fieldNames)
sortByAll(ents, fieldNames) ==
    LET n == Len(ents)
        rank(i) == Cardinality({j \in 1..n : compareMultiple(ents, j, i, fieldNames) < 0}) + 1
    IN  [p \in 1..n |-> ents[CHOOSE i \in 1..n : rank(i) = p]]

----------------------------------------------------------------------------
(* QuerySet *)

getFullEntities(em, ids) ==
    [i \in 1..Len(ids) |->
        Assign([k \in {IdAttribute} |-> ids[i]], IF ids[i] \in DOMAIN em THEN em[ids[i]] ELSE NoProps)]

count(ids) == Len(ids)

exists(ids) == count(ids) # 0

EntityIds(ents) == [i \in 1..Len(ents) |-> ents[i][IdAttribute]]

all(ids) == ids

filter(em, ids, lookupObj) ==
    LET fullEntities == getFullEntities(em, ids)
        n == Len(fullEntities)
        byPredicate == [i \in 1..n |-> CallPredicate(lookupObj.name, fullEntities[i])]
        byMatch == [i \in 1..n |-> match(lookupObj, fullEntities[i])]
        entities == IF lookupObj.kind = "function"
                    THEN SelectPositions(fullEntities, byPredicate, 1)
                    ELSE SelectPositions(fullEntities, byMatch, 1)
    IN  EntityIds(entities)

exclude(em, ids, lookupObj) ==
    LET fullEntities == getFullEntities(em, ids)
        notRejected == [i \in 1..Len(fullEntities) |-> ~match(lookupObj, fullEntities[i])]
    IN  EntityIds(SelectPositions(fullEntities, notRejected, 1))

orderBy(em, ids, fieldNames) ==
    EntityIds(sortByAll(getFullEntities(em, ids), fieldNames))

\* at() reading idArr one position early
at_lookup_oneBased(ids, index) ==
    [k \in {IdAttribute} |-> IF index \in 1..Len(ids) THEN ids[index] ELSE Undefined]

\* The object handed to manager.get by at(index): idArr[index], 0-based
at_lookup(ids, index) ==
    [k \in {IdAttribute} |-> IF index + 1 \in 1..Len(ids) THEN ids[index + 1] ELSE Undefined]

----------------------------------------------------------------------------
(* Entity *)

\* new Entity(manager, props)
Entity(props) == [live |-> TRUE, fields |-> props, fieldNames |-> DOMAIN props]

NoEntity == [live |-> FALSE, fields |-> NoProps, fieldNames |-> {}]

getId(e) == Prop(e.fields, IdAttribute)

\* toPlain() copying whatever fields the wrapper holds now
toPlain_currentFields(e) == e.fields

toPlain(e) == [fieldName \in e.fieldNames |-> Prop(e.fields, fieldName)]

\* A mutation descriptor {type, payload}. An UPDATE payload is {idArr, updater};
\* a DELETE payload is the idArr alone, written here with NoUpdater.
Descriptor(type, ids, updater) == [type |-> type, idArr |-> ids, updater |-> updater]

\* update() recording the mutation without merging into the wrapper
Entity_update_recordOnly(e, muts, mergeObj) ==
    [wrapper |-> e,
     mutations |-> Append(muts, Descriptor(UPDATE, <<getId(e)>>, mergeObj))]

Entity_update(e, muts, mergeObj) ==
    LET assigned == [e EXCEPT !.fields = ObjectAssign(e.fields, mergeObj)]
    IN  [wrapper |-> assigned,
         mutations |-> Append(muts, Descriptor(UPDATE, <<getId(assigned)>>, mergeObj))]

Entity_set(e, muts, propertyName, value) ==
    Entity_update(e, muts, Obj([k \in {propertyName} |-> value]))

\* delete() putting its descriptor at the front of the log
Entity_delete_unshift(e, muts) == <<Descriptor(DELETE, <<getId(e)>>, NoUpdater)>> \o muts

Entity_delete(e, muts) == Append(muts, Descriptor(DELETE, <<getId(e)>>, NoUpdater))

_getEntity(ent) == Entity(ent)

----------------------------------------------------------------------------
(* Manager: the lookup the QuerySet delegates to *)

Manager_get(em, lookupObj) ==
    LET id == lookupObj[IdAttribute]
    IN  IF id \in DOMAIN em
        THEN [lookup |-> id, thrown |-> "none",
              wrapper |-> Entity(getFullEntities(em, <<id>>)[1])]
        ELSE [lookup |-> id, thrown |-> "RecordNotFound", wrapper |-> NoEntity]

at(em, ids, index) == Manager_get(em, at_lookup(ids, index))

first(em, ids) == at(em, ids, 0)

last(em, ids) == at(em, ids, Len(ids) - 1)

----------------------------------------------------------------------------
(* QuerySet mutations *)

\* update() dropping arguments that are neither an object nor a function
QuerySet_update_validating(muts, ids, updater) ==
    IF IsValidUpdater(updater) THEN Append(muts, Descriptor(UPDATE, ids, updater)) ELSE muts

QuerySet_update(muts, ids, updater) == Append(muts, Descriptor(UPDATE, ids, updater))

\* delete() recording nothing for an empty QuerySet
QuerySet_delete_skipEmpty(muts, ids) ==
    IF ids = <<>> THEN muts ELSE Append(muts, Descriptor(DELETE, ids, NoUpdater))

QuerySet_delete(muts, ids) == Append(muts, Descriptor(DELETE, ids, NoUpdater))

----------------------------------------------------------------------------
(* State machine *)

NoRet ==
    [op |-> "none", lookupObj |-> NoUpdater, fieldNames |-> <<>>, index |-> 0,
     of |-> <<>>, ids |-> <<>>, lookup |-> Undefined]

NoBuilt == [id |-> Undefined, fieldNames |-> {}]

Call(recv, op, arg, ids) == [recv |-> recv, op |-> op, arg |-> arg, ids |-> ids]

\* A session over a store that holds record 1 only, named 1; the other ids are
\* stale.
SessionMaps == {em \in EntityMaps : DOMAIN em = {1} /\ em[1]["name"] = 1}

InitCommon ==
    /\ idArr \in IdArrs
    /\ mutations = <<>>
    /\ ret = NoRet
    /\ wrapper = NoEntity
    /\ built = NoBuilt
    /\ thrown = "none"
    /\ calls = <<>>

Init == entityMap \in SessionMaps /\ InitCommon

InitView == entityMap \in EntityMaps /\ InitCommon

\* --- read-only QuerySet calls

Derive(op, lookupObj, fieldNames, ids) ==
    /\ ret' = [NoRet EXCEPT !.op = op, !.lookupObj = lookupObj,
                            !.fieldNames = fieldNames, !.of = idArr, !.ids = ids]
    /\ thrown' = "none"
    /\ UNCHANGED <<entityMap, mutations, calls, idArr, wrapper, built>>

Filter(lookupObj) == Derive("filter", lookupObj, <<>>, filter(entityMap, idArr, lookupObj))

Exclude(lookupObj) == Derive("exclude", lookupObj, <<>>, exclude(entityMap, idArr, lookupObj))

OrderBy(fieldNames) == Derive("orderBy", NoUpdater, fieldNames, orderBy(entityMap, idArr, fieldNames))

All == Derive("all", NoUpdater, <<>>, all(idArr))

\* Go on with the QuerySet the last call returned
Chain ==
    /\ ret.op \in {"filter", "exclude", "orderBy", "all"}
    /\ idArr' = ret.ids
    /\ ret' = NoRet
    /\ thrown' = "none"
    /\ UNCHANGED <<entityMap, mutations, calls, wrapper, built>>

Lookup(op, index, r) ==
    /\ ret' = [NoRet EXCEPT !.op = op, !.index = index, !.of = idArr,
                            !.lookup = r.lookup]
    /\ thrown' = r.thrown
    /\ IF r.thrown = "none"
       THEN wrapper' = r.wrapper
            /\ built' = [id |-> getId(r.wrapper), fieldNames |-> r.wrapper.fieldNames]
       ELSE UNCHANGED <<wrapper, built>>
    /\ UNCHANGED <<entityMap, mutations, calls, idArr>>

At(index) == Lookup("at", index, at(entityMap, idArr, index))

First == Lookup("first", 0, first(entityMap, idArr))

Last == Lookup("last", count(idArr) - 1, last(entityMap, idArr))

\* --- recording calls

QuerySetUpdate(updater) ==
    /\ Len(mutations) < MaxLog
    /\ mutations' = QuerySet_update(mutations, idArr, updater)
    /\ calls' = Append(calls, Call("QuerySet", "update", updater, idArr))
    /\ thrown' = "none"
    /\ UNCHANGED <<entityMap, idArr, ret, wrapper, built>>

QuerySetDelete ==
    /\ Len(mutations) < MaxLog
    /\ mutations' = QuerySet_delete(mutations, idArr)
    /\ calls' = Append(calls, Call("QuerySet", "delete", NoUpdater, idArr))
    /\ thrown' = "none"
    /\ UNCHANGED <<entityMap, idArr, ret, wrapper, built>>

GetEntity(i) ==
    /\ i \in 1..Len(idArr)
    /\ wrapper' = _getEntity(getFullEntities(entityMap, idArr)[i])
    /\ built' = [id |-> getId(wrapper'), fieldNames |-> wrapper'.fieldNames]
    /\ thrown' = "none"
    /\ UNCHANGED <<entityMap, mutations, calls, idArr, ret>>

EntityUpdate(mergeObj) ==
    /\ wrapper.live
    /\ Len(mutations) < MaxLog
    /\ LET r == Entity_update(wrapper, mutations, mergeObj)
       IN  wrapper' = r.wrapper /\ mutations' = r.mutations
    /\ calls' = Append(calls, Call("Entity", "update", mergeObj, <<built.id>>))
    /\ thrown' = "none"
    /\ UNCHANGED <<entityMap, idArr, ret, built>>

EntitySet(propertyName, value) ==
    /\ wrapper.live
    /\ Len(mutations) < MaxLog
    /\ LET r == Entity_set(wrapper, mutations, propertyName, value)
       IN  wrapper' = r.wrapper /\ mutations' = r.mutations
    /\ calls' = Append(calls, Call("Entity", "set", Obj([k \in {propertyName} |-> value]), <<built.id>>))
    /\ thrown' = "none"
    /\ UNCHANGED <<entityMap, idArr, ret, built>>

EntityDelete ==
    /\ wrapper.live
    /\ Len(mutations) < MaxLog
    /\ mutations' = Entity_delete(wrapper, mutations)
    /\ calls' = Append(calls, Call("Entity", "delete", NoUpdater, <<built.id>>))
    /\ thrown' = "none"
    /\ UNCHANGED <<entityMap, idArr, ret, wrapper, built>>

SetArgs == {<<"age", 2>>}

Next ==
    \/ \E u \in Updaters : QuerySetUpdate(u)
    \/ QuerySetDelete
    \/ \E i \in 1..MaxLen : GetEntity(i)
    \/ \E m \in Updaters : EntityUpdate(m)
    \/ \E a \in SetArgs : EntitySet(a[1], a[2])
    \/ EntityDelete

Spec == Init /\ [][Next]_vars

\* Narrowing and reordering a QuerySet
NextView ==
    \/ \E c \in Criteria : Filter(c)
    \/ \E c \in Criteria : Exclude(c)
    \/ \E f \in FieldLists : OrderBy(f)
    \/ All
    \/ Chain

SpecView == InitView /\ [][NextView]_vars

\* Positional access to a QuerySet
NextAt ==
    \/ \E i \in -1..MaxLen : At(i)
    \/ First
    \/ Last

SpecAt == InitView /\ [][NextAt]_vars

----------------------------------------------------------------------------
(* Properties *)

Range(s) == {s[i] : i \in 1..Len(s)}

\* s is t with some positions dropped, the rest in the same order
RECURSIVE IsSubseq(_, _)
IsSubseq(s, t) ==
    IF s = <<>> THEN TRUE
    ELSE IF t = <<>> THEN FALSE
    ELSE IF Head(s) = Head(t) THEN IsSubseq(Tail(s), Tail(t))
    ELSE IsSubseq(s, Tail(t))

Occurrences(s, x) == Cardinality({i \in 1..Len(s) : s[i] = x})

IsPermutation(s, t) ==
    /\ Len(s) = Len(t)
    /\ \A x \in Range(s) \cup Range(t) : Occurrences(s, x) = Occurrences(t, x)

\* This step is a call of recv.op, as the call history records it
Called(recv, op) ==
    /\ Len(calls') = Len(calls) + 1
    /\ calls'[Len(calls')].recv = recv
    /\ calls'[Len(calls')].op = op

CalledArg == calls'[Len(calls')].arg

\* C1: QuerySet.update(u) and QuerySet.delete() leave the entity map and the
\* QuerySet's own idArr unchanged; their only effect is one descriptor appended
\* to manager.mutations, carrying the QuerySet's idArr (and u), also when the
\* QuerySet is empty.
C1_QuerySetOnlyAppends ==
    [][/\ Called("QuerySet", "update") =>
            /\ mutations' = Append(mutations, Descriptor(UPDATE, idArr, CalledArg))
            /\ UNCHANGED <<entityMap, idArr, wrapper>>
       /\ Called("QuerySet", "delete") =>
            /\ mutations' = Append(mutations, Descriptor(DELETE, idArr, NoUpdater))
            /\ UNCHANGED <<entityMap, idArr, wrapper>>]_vars

C1_Witness ==
    /\ Len(calls) = 2 /\ Len(mutations) = 2
    /\ idArr = <<>>
    /\ calls[1].recv = "QuerySet" /\ calls[1].op = "update" /\ mutations[1].idArr = <<>>
    /\ calls[2].recv = "QuerySet" /\ calls[2].op = "delete" /\ mutations[2].type = DELETE

\* The type a call's descriptor carries
TypeOf(op) == IF op = "delete" THEN DELETE ELSE UPDATE

LogMatchesCalls ==
    /\ Len(mutations) = Len(calls)
    /\ \A i \in 1..Len(calls) :
        /\ i <= Len(mutations)
        /\ mutations[i].type = TypeOf(calls[i].op)
        /\ mutations[i].updater = calls[i].arg
        /\ calls[i].recv = "QuerySet" => mutations[i].idArr = calls[i].ids
        /\ calls[i].recv = "Entity" => Len(mutations[i].idArr) = 1

LogPrefixKept ==
    /\ Len(mutations') >= Len(mutations)
    /\ SubSeq(mutations', 1, Len(mutations)) = mutations

\* C2: manager.mutations holds exactly one descriptor per update/set/delete call
\* made on the QuerySet or the Entity, in call order; a step never changes,
\* drops or reorders what the log already held, and identical calls are not
\* merged.
C2_LogIsCallOrder == []LogMatchesCalls /\ [][LogPrefixKept]_vars

C2_Witness ==
    /\ Len(calls) = 2 /\ Len(mutations) = 2
    /\ calls[1] = calls[2]
    /\ mutations[1] = mutations[2]
    /\ calls[1].recv = "Entity"

\* C3: filter(c) and exclude(c) of one QuerySet partition it: the counts add up,
\* the id sets are disjoint and cover the QuerySet's ids, and each keeps the
\* original order, for object and for function criteria alike.
C3_FilterExcludePartition ==
    ret.op = "filter" =>
        LET kept == ret.ids
            dropped == exclude(entityMap, ret.of, ret.lookupObj)
        IN  /\ count(kept) + count(dropped) = count(ret.of)
            /\ Range(kept) \cap Range(dropped) = {}
            /\ Range(kept) \cup Range(dropped) = Range(ret.of)
            /\ IsSubseq(kept, ret.of)
            /\ IsSubseq(dropped, ret.of)

\* C4: every id of filter, exclude, orderBy and all is an id of the QuerySet it
\* was called on, whatever the entity map holds, and the call leaves that
\* QuerySet as it was.
C4_NarrowsNeverInvents ==
    ret.op \in {"filter", "exclude", "orderBy", "all"} =>
        /\ Range(ret.ids) \subseteq Range(ret.of)
        /\ idArr = ret.of

C7_OrderByStableSort ==
    ret.op = "orderBy" =>
        LET ents == getFullEntities(entityMap, ret.ids)
            n == Len(ret.ids)
        IN  /\ IsPermutation(ret.ids, ret.of)
            /\ \A i \in 1..n : \A j \in 1..n :
                    i < j => compareCriteria(ents[i], ents[j], ret.fieldNames, 1) <= 0
            /\ orderBy(entityMap, ret.ids, ret.fieldNames) = ret.ids

InvalidUpdateCalled ==
    /\ Called("QuerySet", "update") \/ Called("Entity", "update")
    /\ ~IsValidUpdater(CalledArg)

\* C8 as stated: update with an argument that is neither an object nor a
\* function fails with InvalidUpdater and leaves manager.mutations unchanged.
C8_InvalidUpdaterRejected ==
    [][InvalidUpdateCalled => (thrown' = "InvalidUpdater" /\ mutations' = mutations)]_vars

\* C8 amended: update with an argument that is neither an object nor a function
\* raises nothing and appends one UPDATE descriptor carrying that argument as
\* its updater, for the QuerySet's idArr or the Entity's id.
C8_InvalidUpdaterRecorded ==
    [][InvalidUpdateCalled =>
            /\ thrown' = "none"
            /\ Called("QuerySet", "update") =>
                    mutations' = Append(mutations, Descriptor(UPDATE, idArr, CalledArg))
            /\ Called("Entity", "update") =>
                    mutations' = Append(mutations,
                                        Descriptor(UPDATE, <<getId(wrapper)>>, CalledArg))]_vars

C8_Witness ==
    /\ Len(calls) = 2 /\ Len(mutations) = 2
    /\ calls[1].recv = "QuerySet" /\ calls[1].op = "update" /\ calls[1].arg = Num
    /\ mutations[1].updater = Num
    /\ calls[2].recv = "Entity" /\ calls[2].op = "update" /\ calls[2].arg = Num
    /\ mutations[2].updater = Num
    /\ thrown = "none"

\* C9: at(i) looks up the QuerySet's i-th id (0-based); outside 0..count()-1,
\* and so for first() and last() of an empty QuerySet, it hands an undefined id
\* to manager.get, which fails with RecordNotFound; the error is not caught and
\* neither manager.mutations nor the entity map changes. first() is at(0) and
\* last() is at(count() - 1).
C9_AtLooksUpIndex ==
    [][ret'.op \in {"at", "first", "last"} =>
            LET i == ret'.index
                inRange == i \in 0..(count(idArr) - 1)
            IN  /\ ret'.of = idArr /\ idArr' = idArr
                /\ ret'.op = "first" => i = 0
                /\ ret'.op = "last" => i = count(idArr) - 1
                /\ inRange => ret'.lookup = idArr[i + 1]
                /\ ~inRange => (ret'.lookup = Undefined /\ thrown' = "RecordNotFound")
                /\ thrown' = "RecordNotFound" <=> ret'.lookup \notin DOMAIN entityMap
                /\ thrown' = "RecordNotFound" => wrapper' = wrapper
                /\ mutations' = mutations
                /\ entityMap' = entityMap]_vars

C9_Witness ==
    /\ ret.op = "last"
    /\ ret.of = <<>>
    /\ ret.index = -1
    /\ ret.lookup = Undefined
    /\ thrown = "RecordNotFound"

\* C10: the descriptors an Entity appends, by update(m) and by a later
\* delete(), carry the id the wrapper was constructed with, also when m assigns
\* the id attribute.
C10_EntityTargetsConstructedId ==
    \A i \in 1..Len(calls) :
        (calls[i].recv = "Entity" /\ i <= Len(mutations)) =>
            mutations[i].idArr = calls[i].ids

====
